---- MODULE Spec2Model ----
(***************************************************************************)
(* Model of Faire/archer's graph domain model (package archer: Projects,   *)
(* Project, Dependency, Size) and of the gradle text parsers               *)
(* (parseProjects, parseDeps).                                             *)
(*                                                                         *)
(* A Go string is a sequence of one-character strings, so that key         *)
(* building, prefix tests, trimming and byte-wise comparison are computed  *)
(* and not assumed.  A *Project is its index in the heap projs, a          *)
(* *Dependency its index in the heap deps.                                 *)
(***************************************************************************)
EXTENDS Integers, Sequences, FiniteSets, TLC

VARIABLES
    all,        \* Projects.all: map[string]*Project
    projs,      \* heap of Project objects, in allocation order
    deps,       \* heap of Dependency objects, in allocation order
    held,       \* per requested (root, name): the nodes Get returned to its callers
    listed,     \* the slice the last ListProjects / ListDependencies call returned
    lines,      \* parseDeps: strings.Split(content, "\n")
    pos,        \* parseDeps: index of the next line of the range loop
    state,      \* parseDeps: the local variable state
    stack,      \* parseDeps: the local variable stack ([]pd)
    pc,         \* parseDeps: "run" in the loop, "done" returned nil, "failed" returned an error
    err,        \* parseDeps: the line carried by the returned error
    plLines,    \* parseProjects: strings.Split(content, "\n")
    plPos,      \* parseProjects: index of the next line of the range loop
    rootAdded,  \* parseProjects: the local variable rootAdded
    result,     \* parseProjects: the local variable result
    ret,        \* the last observed call: its arguments and what it returned or panicked with
    procs       \* goroutines calling Get without synchronization: position and locals

regVars == <<all, projs, deps, held, listed>>
depsVars == <<lines, pos, state, stack, pc, err>>
plVars == <<plLines, plPos, rootAdded, result>>
callVars == <<ret, procs>>
vars == <<all, projs, deps, held, listed, lines, pos, state, stack, pc, err,
          plLines, plPos, rootAdded, result, ret, procs>>

----------------------------------------------------------------------------
(* Bounds of the model *)

MaxProjects == 3
MaxDeps == 2
MaxLines == 4
MaxPlLines == 3
MaxParts == 3

----------------------------------------------------------------------------
(* Strings *)

NL == "\n"

\* Byte value of the characters that names and keys are built from.
Ord(c) ==
    CASE c = NL -> 10
      [] c = " " -> 32
      [] c = "'" -> 39
      [] c = "+" -> 43
      [] c = "-" -> 45
      [] c = "." -> 46
      [] c = ":" -> 58
      [] c = "P" -> 80
      [] c = "R" -> 82
      [] c = "\\" -> 92
      [] c = "a" -> 97
      [] c = "b" -> 98
      [] c = "c" -> 99
      [] c = "e" -> 101
      [] c = "j" -> 106
      [] c = "o" -> 111
      [] c = "p" -> 112
      [] c = "r" -> 114
      [] c = "t" -> 116
      [] c = "x" -> 120
      [] c = "|" -> 124

\* Go's < on strings: byte-wise lexicographic, a proper prefix is smaller.
RECURSIVE StrLess(_, _)
StrLess(s, t) ==
    IF t = <<>> THEN FALSE
    ELSE IF s = <<>> THEN TRUE
    ELSE IF Ord(Head(s)) # Ord(Head(t)) THEN Ord(Head(s)) < Ord(Head(t))
    ELSE StrLess(Tail(s), Tail(t))

\* strings.TrimLeft(s, cutset) with a one-character cutset
RECURSIVE TrimLeft(_, _)
TrimLeft(s, c) ==
    IF s # <<>> /\ Head(s) = c THEN TrimLeft(Tail(s), c) ELSE s

\* strings.HasPrefix(s, prefix)
HasPrefix(s, prefix) ==
    /\ Len(s) >= Len(prefix)
    /\ SubSeq(s, 1, Len(prefix)) = prefix

----------------------------------------------------------------------------
(* Maps *)

EmptyMap == [k \in {} |-> k]

MapPut(m, k, v) == [y \in DOMAIN m \cup {k} |-> IF y = k THEN v ELSE m[y]]

Range(f) == {f[k] : k \in DOMAIN f}

Max(S) == CHOOSE x \in S : \A y \in S : y <= x
Min(S) == CHOOSE x \in S : \A y \in S : x <= y

----------------------------------------------------------------------------
(* Package archer: types *)

ExternalDependencyType == 0
CodeType == 1
DatabaseType == 2

\* The nil *Project; every node is a positive index of the heap.
Nil == 0

FilterAll == 0
FilterExcludeExternal == 1

ProjectTypes == {ExternalDependencyType, CodeType, DatabaseType}
FilterTypes == {FilterAll, FilterExcludeExternal}

\* NewProject(root, name): Type has Go's zero value, the maps are empty.
NewProject(root, name) ==
    [Root |-> root, Name |-> name, NameParts |-> <<>>,
     Type |-> ExternalDependencyType,
     dependencies |-> EmptyMap, size |-> EmptyMap, config |-> EmptyMap]

IsCode(p) == projs[p].Type = CodeType

IsExternalDependency(p) == projs[p].Type = ExternalDependencyType

----------------------------------------------------------------------------
(* Projects.Get *)

\* key := root + "\n" + name
registryKey(root, name) == root \o <<NL>> \o name

\* Get without the lookup: a node is allocated on every call.
GetOnNoLookup(a, h, root, name) ==
    [all |-> MapPut(a, registryKey(root, name), Len(h) + 1),
     projs |-> Append(h, NewProject(root, name)),
     node |-> Len(h) + 1]

\* The map, the heap and the returned node after ps.Get(root, name) on the
\* registry (a, h).
GetOn(a, h, root, name) ==
    LET key == registryKey(root, name) IN
    IF key \in DOMAIN a
    THEN [all |-> a, projs |-> h, node |-> a[key]]
    ELSE [all |-> MapPut(a, key, Len(h) + 1),
          projs |-> Append(h, NewProject(root, name)),
          node |-> Len(h) + 1]

Holding(hd, root, name, node) ==
    MapPut(hd, <<root, name>>,
           (IF <<root, name>> \in DOMAIN hd THEN hd[<<root, name>>] ELSE {})
               \cup {node})

NoPanic == ""

\* Get that checks the root only.
GetPanicOfRootOnly(root, name) ==
    IF Len(root) = 0 THEN "empty root not supported" ELSE NoPanic

\* The panic the argument checks of Get raise
GetPanicOf(root, name) ==
    IF Len(root) = 0 THEN "empty root not supported"
    ELSE IF Len(name) = 0 THEN "empty name not supported"
    ELSE NoPanic

\* ps.Get(root, name): ret keeps the panic of a call with an empty argument,
\* held the node returned by any other call.
Get(root, name) ==
    LET r == GetOn(all, projs, root, name) IN
    IF GetPanicOf(root, name) # NoPanic
    THEN /\ ret' = [op |-> "Get", root |-> root, name |-> name,
                    panic |-> GetPanicOf(root, name)]
         /\ UNCHANGED regVars
    ELSE /\ Len(r.projs) <= MaxProjects
         /\ all' = r.all
         /\ projs' = r.projs
         /\ held' = Holding(held, root, name, r.node)
         /\ UNCHANGED <<deps, listed, ret>>

----------------------------------------------------------------------------
(* Projects.Get called from several goroutines: the map is read and        *)
(* written without a lock, so the steps of two calls interleave            *)

Goroutines == {1, 2}

\* A goroutine outside Get; root, name, ok and result are those of its last call
IdleProc == [pc |-> "idle", root |-> <<>>, name |-> <<>>, ok |-> FALSE, result |-> Nil]

\* A lookup that never finds the key.
LookupOnMiss(a, key) == [ok |-> FALSE, result |-> Nil]

\* result, ok := ps.all[key]
LookupOn(a, key) ==
    [ok |-> key \in DOMAIN a, result |-> IF key \in DOMAIN a THEN a[key] ELSE Nil]

\* The call is entered with non-empty arguments; key is a local.
GetCall(i, root, name) ==
    /\ procs[i].pc = "idle"
    /\ GetPanicOf(root, name) = NoPanic
    /\ procs' = [procs EXCEPT ![i] = [pc |-> "lookup", root |-> root, name |-> name,
                                      ok |-> FALSE, result |-> Nil]]
    /\ UNCHANGED <<ret, regVars>>

\* result, ok := ps.all[key]
GetLookup(i) ==
    LET r == LookupOn(all, registryKey(procs[i].root, procs[i].name)) IN
    /\ procs[i].pc = "lookup"
    /\ procs' = [procs EXCEPT ![i].ok = r.ok, ![i].result = r.result,
                              ![i].pc = IF r.ok THEN "return" ELSE "insert"]
    /\ UNCHANGED <<ret, regVars>>

\* if !ok { result = NewProject(root, name); ps.all[key] = result }
GetInsert(i) ==
    /\ procs[i].pc = "insert"
    /\ Len(projs) < MaxProjects
    /\ projs' = Append(projs, NewProject(procs[i].root, procs[i].name))
    /\ all' = MapPut(all, registryKey(procs[i].root, procs[i].name), Len(projs) + 1)
    /\ procs' = [procs EXCEPT ![i].result = Len(projs) + 1, ![i].pc = "return"]
    /\ UNCHANGED <<ret, deps, held, listed>>

\* return result
GetReturn(i) ==
    /\ procs[i].pc = "return"
    /\ held' = Holding(held, procs[i].root, procs[i].name, procs[i].result)
    /\ procs' = [procs EXCEPT ![i].pc = "idle"]
    /\ UNCHANGED <<ret, all, projs, deps, listed>>

\* A map write that overlaps another access of the map is a data race; the
\* runtime may detect it and abort the program ("concurrent map writes").
ConcurrentMapAccess ==
    /\ \E i \in Goroutines, j \in Goroutines :
          /\ i # j
          /\ procs[i].pc = "insert"
          /\ procs[j].pc \in {"lookup", "insert"}
    /\ procs' = [i \in Goroutines |-> [procs[i] EXCEPT !.pc = "fatal"]]
    /\ UNCHANGED <<ret, regVars>>

----------------------------------------------------------------------------
(* Projects.GetOrNil *)

\* GetOrNil looking the name up under the root "a".
GetOrNilOfUnderRoot(a, name) ==
    IF registryKey(<<"a">>, name) \in DOMAIN a THEN a[registryKey(<<"a">>, name)] ELSE Nil

\* result, ok := ps.all[name]; nil when !ok
GetOrNilOf(a, name) == IF name \in DOMAIN a THEN a[name] ELSE Nil

\* ps.GetOrNil(name): panics on the empty name, else returns the lookup
GetOrNil(name) ==
    /\ ret' = [op |-> "GetOrNil", name |-> name,
               panic |-> IF Len(name) = 0 THEN "empty name not supported" ELSE NoPanic,
               out |-> IF Len(name) = 0 THEN Nil ELSE GetOrNilOf(all, name)]
    /\ UNCHANGED regVars

----------------------------------------------------------------------------
(* Project.SimpleName / LevelSimpleName *)

\* strings.Join(parts, sep)
RECURSIVE Join(_, _)
Join(parts, sep) ==
    IF parts = <<>> THEN <<>>
    ELSE IF Len(parts) = 1 THEN parts[1]
    ELSE parts[1] \o sep \o Join(Tail(parts), sep)

\* utils.Take(parts, n): the first n parts, all of them when there are fewer
Take(parts, n) == SubSeq(parts, 1, Min({n, Len(parts)}))

\* simplifyPrefixes testing the first part against the second.
RECURSIVE simplifyPrefixesSwapped(_)
simplifyPrefixesSwapped(parts) ==
    IF Len(parts) > 1 /\ HasPrefix(parts[1], parts[2])
    THEN simplifyPrefixesSwapped(Tail(parts))
    ELSE parts

\* for len(parts) > 1 && strings.HasPrefix(parts[1], parts[0]) { parts = parts[1:] }
RECURSIVE simplifyPrefixes(_)
simplifyPrefixes(parts) ==
    IF Len(parts) > 1 /\ HasPrefix(parts[2], parts[1])
    THEN simplifyPrefixes(Tail(parts))
    ELSE parts

\* The parts LevelSimpleName hands to simplifyPrefixes
LevelParts(parts, level) == IF level > 0 THEN Take(parts, level) ELSE parts

\* LevelSimpleName without the fall back to Name.
LevelSimpleNameOfNoFallback(p, level) ==
    IF Len(p.NameParts) = 0 THEN p.Name
    ELSE Join(simplifyPrefixes(LevelParts(p.NameParts, level)), <<":">>)

\* What p.LevelSimpleName(level) returns
LevelSimpleNameOf(p, level) ==
    IF Len(p.NameParts) = 0 THEN p.Name
    ELSE LET res == Join(simplifyPrefixes(LevelParts(p.NameParts, level)), <<":">>)
         IN  IF Len(p.Name) <= Len(res) THEN p.Name ELSE res

\* What p.SimpleName() returns
SimpleNameOf(p) == LevelSimpleNameOf(p, 0)

----------------------------------------------------------------------------
(* Size, Size.Add, Project.AddSize / GetSize *)

\* A map[string]int field: Go's zero value is the nil map, which reads as
\* empty and cannot be written.
NilMap == [nil |-> TRUE, kv |-> EmptyMap]
MakeMap(kv) == [nil |-> FALSE, kv |-> kv]

\* o, _ := m[k]
MapGet0(kv, k) == IF k \in DOMAIN kv THEN kv[k] ELSE 0

\* The receiver after l.Add(other), and whether the call panicked: the three
\* counters are added first; the loop then writes l.Other[k] for every key of
\* other.Other, and a write to a nil map panics.
SizeAddOn(l, other) ==
    LET counted == [l EXCEPT !.Lines = l.Lines + other.Lines,
                             !.Files = l.Files + other.Files,
                             !.Bytes = l.Bytes + other.Bytes]
        okv == other.Other.kv
    IN  IF okv = EmptyMap THEN [panic |-> FALSE, size |-> counted]
        ELSE IF l.Other.nil THEN [panic |-> TRUE, size |-> counted]
        ELSE [panic |-> FALSE,
              size |-> [counted EXCEPT !.Other =
                          MakeMap([k \in DOMAIN l.Other.kv \cup DOMAIN okv |->
                                      MapGet0(l.Other.kv, k) + MapGet0(okv, k)])]]

\* AddSize that merges into the bucket already stored for the category.
AddSizeOnAccumulate(sz, name, size) ==
    IF name \in DOMAIN sz
    THEN MapPut(sz, name, SizeAddOn(sz[name], size).size)
    ELSE MapPut(sz, name, size)

\* p.size[name] = size
AddSizeOn(sz, name, size) == MapPut(sz, name, size)

AddSize(p, name, size) ==
    /\ projs' = [projs EXCEPT ![p].size = AddSizeOn(@, name, size)]
    /\ UNCHANGED <<all, deps, held, listed>>

\* The range loop of GetSize from position i of the visiting order
RECURSIVE GetSizeFrom(_, _, _, _)
GetSizeFrom(sz, order, i, res) ==
    IF i > Len(order) \/ res.panic THEN res
    ELSE GetSizeFrom(sz, order, i + 1, SizeAddOn(res.size, sz[order[i]]))

\* GetSize when the map p.size is ranged over in the given order
GetSizeIn(sz, order) ==
    GetSizeFrom(sz, order, 1,
                [panic |-> FALSE,
                 size |-> [Lines |-> 0, Files |-> 0, Bytes |-> 0,
                           Other |-> MakeMap(EmptyMap)]])

\* GetSize reads the buckets and writes only its own result.
GetSize(p) == UNCHANGED regVars

----------------------------------------------------------------------------
(* Project.AddDependency, Dependency.SetConfig / GetConfig *)

\* AddDependency that leaves an edge to the same target name in place.
AddDependencyOnKeepFirst(h, ds, p, d) ==
    IF h[d].Name \in DOMAIN h[p].dependencies
    THEN [projs |-> h,
          deps |-> Append(ds, [Source |-> p, Target |-> d, config |-> EmptyMap]),
          dep |-> Len(ds) + 1]
    ELSE [projs |-> [h EXCEPT ![p].dependencies = MapPut(@, h[d].Name, Len(ds) + 1)],
          deps |-> Append(ds, [Source |-> p, Target |-> d, config |-> EmptyMap]),
          dep |-> Len(ds) + 1]

\* The heaps and the returned edge after p.AddDependency(d) on (h, ds):
\* a new Dependency is allocated and stored under the target's bare name.
AddDependencyOn(h, ds, p, d) ==
    [projs |-> [h EXCEPT ![p].dependencies = MapPut(@, h[d].Name, Len(ds) + 1)],
     deps |-> Append(ds, [Source |-> p, Target |-> d, config |-> EmptyMap]),
     dep |-> Len(ds) + 1]

AddDependency(p, d) ==
    LET r == AddDependencyOn(projs, deps, p, d) IN
    /\ Len(deps) < MaxDeps
    /\ projs' = r.projs
    /\ deps' = r.deps
    /\ UNCHANGED <<all, held, listed>>

\* v, _ := config[key]; return v
GetConfigOf(cfg, key) == IF key \in DOMAIN cfg THEN cfg[key] ELSE <<>>

\* SetConfig that never deletes: an empty value leaves the entry in place.
SetConfigOfNoDelete(cfg, key, value) ==
    IF GetConfigOf(cfg, key) = value \/ value = <<>> THEN cfg
    ELSE MapPut(cfg, key, value)

\* The store after SetConfig(key, value)
SetConfigOf(cfg, key, value) ==
    IF GetConfigOf(cfg, key) = value THEN cfg
    ELSE IF value = <<>> THEN [k \in DOMAIN cfg \ {key} |-> cfg[k]]
    ELSE MapPut(cfg, key, value)

\* What SetConfig(key, value) returns
SetConfigChanged(cfg, key, value) == GetConfigOf(cfg, key) # value

DepSetConfig(e, key, value) ==
    /\ deps' = [deps EXCEPT ![e].config = SetConfigOf(@, key, value)]
    /\ UNCHANGED <<all, projs, held, listed>>

ProjectSetConfig(p, key, value) ==
    /\ projs' = [projs EXCEPT ![p].config = SetConfigOf(@, key, value)]
    /\ UNCHANGED <<all, deps, held, listed>>

\* An importer assigns the exported field: proj.Type = t
SetType(p, t) ==
    /\ projs' = [projs EXCEPT ![p].Type = t]
    /\ UNCHANGED <<all, deps, held, listed>>

----------------------------------------------------------------------------
(* Listing: ListProjects, ListDependencies and their sort *)

\* The orders in which a range loop may visit the elements of S
Orders(S) == {o \in [1..Cardinality(S) -> S] : Range(o) = S}

Swap(s, i, j) == [s EXCEPT ![i] = s[j], ![j] = s[i]]

\* sort.Slice on a short slice is an insertion sort: element i sinks while
\* less(data[j], data[j-1]).  lt is the less function as a set of pairs.
RECURSIVE Sink(_, _, _)
Sink(s, j, lt) ==
    IF j > 1 /\ <<s[j], s[j - 1]>> \in lt
    THEN Sink(Swap(s, j, j - 1), j - 1, lt)
    ELSE s

RECURSIVE InsertFrom(_, _, _)
InsertFrom(s, i, lt) ==
    IF i > Len(s) THEN s ELSE InsertFrom(Sink(s, i, lt), i + 1, lt)

sortSlice(s, lt) == InsertFrom(s, 2, lt)

\* The comparison that sortProjects and sortDependencies end with
projectLess(pi, pj) ==
    IF IsCode(pi) /\ IsExternalDependency(pj) THEN TRUE
    ELSE IF IsExternalDependency(pi) /\ IsCode(pj) THEN FALSE
    ELSE StrLess(TrimLeft(projs[pi].Name, ":"), TrimLeft(projs[pj].Name, ":"))

sortProjects(s) ==
    sortSlice(s, {pr \in Range(s) \X Range(s) : projectLess(pr[1], pr[2])})

dependencyLess(di, dj) ==
    IF projs[deps[di].Source].Name = projs[deps[dj].Source].Name
    THEN projectLess(deps[di].Target, deps[dj].Target)
    ELSE projectLess(deps[di].Source, deps[dj].Source)

sortDependencies(s) ==
    sortSlice(s, {pr \in Range(s) \X Range(s) : dependencyLess(pr[1], pr[2])})

\* ListProjects(filter) when the range over ps.all visits the nodes in order
ListProjectsIn(order, filter) ==
    sortProjects(SelectSeq(order,
        LAMBDA v : ~(filter = FilterExcludeExternal /\ IsExternalDependency(v))))

\* p.ListDependencies(filter) when the range over p.dependencies visits
\* the edges in order
ListDependenciesIn(order, filter) ==
    sortDependencies(SelectSeq(order,
        LAMBDA v : ~(filter = FilterExcludeExternal
                       /\ IsExternalDependency(deps[v].Target))))

ListProjects(filter) ==
    /\ \E order \in Orders(Range(all)) :
          listed' = ListProjectsIn(order, filter)
    /\ UNCHANGED <<all, projs, deps, held>>

ListDependencies(p, filter) ==
    /\ \E order \in Orders(Range(projs[p].dependencies)) :
          listed' = ListDependenciesIn(order, filter)
    /\ UNCHANGED <<all, projs, deps, held>>

----------------------------------------------------------------------------
(* Package gradle: the regular expressions *)

\* The class [-+\\| ]
IsTreeChar(c) == c \in {"-", "+", "\\", "|", " "}

\* The class [a-zA-Z0-9:._-], over the characters of the model's lines
IsIdChar(c) ==
    c \in {"a", "b", "c", "e", "j", "o", "p", "r", "t", "x", "P", "R",
           ":", ".", "_", "-"}


\* Length of the longest prefix of l made of tree characters
TreeRun(l) ==
    Max({k \in 0..Len(l) : \A i \in 1..k : IsTreeChar(l[i])})

\* Last index of the run of identifier characters that starts at index s
IdRunEnd(l, s) ==
    Max({e \in s..Len(l) : \A i \in s..e : IsIdChar(l[i])})

RootPrefix == <<"R", "o", "o", "t", " ", "p", "r", "o", "j", "e", "c", "t", " ", "'">>
ProjectPrefix == <<"P", "r", "o", "j", "e", "c", "t", " ", "'">>
ProjectWord == <<"p", "r", "o", "j", "e", "c", "t", " ">>
BranchLast == <<"\\", "-", "-", "-">>
BranchMore == <<"+", "-", "-", "-">>

\* ^<prefix>([^']+)'$ on l: <<>> for nil, else <<match, group 1>>
MatchQuoted(l, prefix) ==
    IF /\ HasPrefix(l, prefix)
       /\ Len(l) >= Len(prefix) + 2
       /\ l[Len(l)] = "'"
       /\ \A i \in (Len(prefix) + 1)..(Len(l) - 1) : l[i] # "'"
    THEN <<l, SubSeq(l, Len(prefix) + 1, Len(l) - 1)>>
    ELSE <<>>

\* rootRE of parseProjects: ^Root project '([^']+)'$
rootRE(l) == MatchQuoted(l, RootPrefix)

\* projRE of parseProjects: ^[-+\\| ]+Project '([^']+)'$
projRE(l) ==
    LET ks == {k \in 1..TreeRun(l) :
                  MatchQuoted(SubSeq(l, k + 1, Len(l)), ProjectPrefix) # <<>>}
    IN  IF ks = {} THEN <<>>
        ELSE <<l, MatchQuoted(SubSeq(l, Max(ks) + 1, Len(l)), ProjectPrefix)[2]>>

\* rootProjRE of parseDeps: ^(?:Root project|Project) '([^']+)'$
rootProjRE(l) ==
    IF MatchQuoted(l, RootPrefix) # <<>> THEN MatchQuoted(l, RootPrefix)
    ELSE MatchQuoted(l, ProjectPrefix)

\* Where the identifier of depRE starts after a tree prefix of length k: past
\* "project " when an identifier follows it, else right after the prefix;
\* 0 when no identifier character stands there.
IdStart(l, k) ==
    IF /\ HasPrefix(SubSeq(l, k + 1, Len(l)), ProjectWord)
       /\ k + Len(ProjectWord) + 1 <= Len(l)
       /\ IsIdChar(l[k + Len(ProjectWord) + 1])
    THEN k + Len(ProjectWord) + 1
    ELSE IF k + 1 <= Len(l) /\ IsIdChar(l[k + 1]) THEN k + 1
    ELSE 0

\* depRE with a prefix that may be empty: ^([-+\\| ]*)...
depREStar(l) ==
    LET ks == {k \in 0..TreeRun(l) : IdStart(l, k) # 0} IN
    IF ks = {} THEN <<>>
    ELSE LET k == Max(ks)
             s == IdStart(l, k)
             e == IdRunEnd(l, s)
         IN  <<SubSeq(l, 1, e), SubSeq(l, 1, k), SubSeq(l, s, e)>>

\* depRE of parseDeps: ^([-+\\| ]+)(?:project )?([a-zA-Z0-9:._-]+)
\* <<>> for nil, else <<match, group 1, group 2>>.  The greedy prefix gives
\* characters back until an identifier can start ("-" is in both classes).
depRE(l) ==
    LET ks == {k \in 1..TreeRun(l) : IdStart(l, k) # 0} IN
    IF ks = {} THEN <<>>
    ELSE LET k == Max(ks)
             s == IdStart(l, k)
             e == IdRunEnd(l, s)
         IN  <<SubSeq(l, 1, e), SubSeq(l, 1, k), SubSeq(l, s, e)>>

----------------------------------------------------------------------------
(* Package gradle: parseDeps, one step per line of the range loop *)

waitingRoot == 0
waitingDeps == 1
parsingDeps == 2

\* The rootProj argument of parseDeps
RootProj == <<"r">>

RemoveLast(st) == SubSeq(st, 1, Len(st) - 1)

\* The unwinding loop with < in place of <=
RECURSIVE unwindStrict(_, _)
unwindStrict(st, depth) ==
    IF st # <<>> /\ depth < st[Len(st)].depth
    THEN unwindStrict(RemoveLast(st), depth)
    ELSE st

\* lp := Last(stack); for depth <= lp.depth { stack = RemoveLast(stack); lp = Last(stack) }
RECURSIVE unwind(_, _)
unwind(st, depth) ==
    IF st # <<>> /\ depth <= st[Len(st)].depth
    THEN unwind(RemoveLast(st), depth)
    ELSE st

\* state == waitingRoot: a matching line creates the root project
WaitingRootLine(l) ==
    LET m == rootProjRE(l)
        g == GetOn(all, projs, RootProj, m[2])
    IN  IF m # <<>>
        THEN /\ all' = g.all
             /\ projs' = g.projs
             /\ held' = Holding(held, RootProj, m[2], g.node)
             /\ stack' = Append(stack, [proj |-> g.node, depth |-> 0])
             /\ state' = waitingDeps
             /\ pos' = pos + 1
             /\ UNCHANGED <<deps, listed, pc, err>>
        ELSE /\ pos' = pos + 1
             /\ UNCHANGED <<all, projs, deps, held, listed, state, stack, pc, err>>

\* An invalid line handled after the node of the line was looked up
InvalidLineAfterGet(l) ==
    LET g == GetOn(all, projs, RootProj, l) IN
    /\ all' = g.all
    /\ projs' = g.projs
    /\ pc' = "failed"
    /\ err' = l
    /\ state' = parsingDeps
    /\ UNCHANGED <<deps, held, listed, stack, pos>>

\* return errors.Errorf("invalid dependency line: %v", l)
InvalidLine(l) ==
    /\ pc' = "failed"
    /\ err' = l
    /\ state' = parsingDeps
    /\ UNCHANGED <<all, projs, deps, held, listed, stack, pos>>

\* A matching line: the node of the line, the unwinding, the edge, the push
DependencyLine(l) ==
    LET m == depRE(l)
        depth == Len(m[2])
        g == GetOn(all, projs, RootProj, m[3])
        st == unwind(stack, depth)
    IN  IF st = <<>>
        THEN \* utils.Last of an empty stack
             /\ pc' = "panic"
             /\ state' = parsingDeps
             /\ all' = g.all
             /\ projs' = g.projs
             /\ held' = Holding(held, RootProj, m[3], g.node)
             /\ UNCHANGED <<deps, listed, stack, pos, err>>
        ELSE LET r == AddDependencyOn(g.projs, deps, st[Len(st)].proj, g.node) IN
             /\ all' = g.all
             /\ projs' = r.projs
             /\ deps' = r.deps
             /\ held' = Holding(held, RootProj, m[3], g.node)
             /\ stack' = Append(st, [proj |-> g.node, depth |-> depth])
             /\ state' = parsingDeps
             /\ pos' = pos + 1
             /\ UNCHANGED <<listed, pc, err>>

\* An empty line in parsingDeps that is skipped like any other line
EmptyLineContinue ==
    /\ pos' = pos + 1
    /\ state' = parsingDeps
    /\ UNCHANGED <<all, projs, deps, held, listed, stack, pc, err>>

\* if len(l) == 0 { break }: the loop ends and parseDeps returns nil
EmptyLine ==
    /\ pc' = "done"
    /\ state' = parsingDeps
    /\ UNCHANGED <<all, projs, deps, held, listed, stack, pos, err>>

\* One iteration of `for _, l := range lines`
ParseLine ==
    /\ pc = "run"
    /\ pos <= Len(lines)
    /\ UNCHANGED lines
    /\ LET l == lines[pos]
           st1 == IF /\ state = waitingDeps
                     /\ (HasPrefix(l, BranchLast) \/ HasPrefix(l, BranchMore))
                  THEN parsingDeps ELSE state
       IN  IF state = waitingRoot THEN WaitingRootLine(l)
           ELSE IF st1 # parsingDeps
           THEN /\ pos' = pos + 1
                /\ UNCHANGED <<all, projs, deps, held, listed, state, stack, pc, err>>
           ELSE IF Len(l) = 0 THEN EmptyLine
           ELSE IF depRE(l) = <<>> THEN InvalidLine(l)
           ELSE DependencyLine(l)

\* The range is exhausted: return nil
ParseEnd ==
    /\ pc = "run"
    /\ pos > Len(lines)
    /\ pc' = "done"
    /\ UNCHANGED <<all, projs, deps, held, listed, lines, pos, state, stack, err>>

----------------------------------------------------------------------------
(* Package gradle: parseProjects, one step per line of the range loop *)

ProjectsLine ==
    /\ plPos <= Len(plLines)
    /\ LET l == plLines[plPos]
           isRoot == ~rootAdded /\ rootRE(l) # <<>>
           r1 == IF isRoot THEN Append(result, rootRE(l)[2]) ELSE result
       IN  /\ rootAdded' = (rootAdded \/ isRoot)
           /\ result' = IF projRE(l) # <<>> THEN Append(r1, projRE(l)[2]) ELSE r1
    /\ plPos' = plPos + 1
    /\ UNCHANGED plLines

----------------------------------------------------------------------------
(* Initial state: NewProjects(), no call made, no parse started *)

InitRegistry ==
    /\ all = EmptyMap
    /\ projs = <<>>
    /\ deps = <<>>
    /\ held = EmptyMap
    /\ listed = <<>>

IdleDeps ==
    /\ lines = <<>>
    /\ pos = 1
    /\ state = waitingRoot
    /\ stack = <<>>
    /\ pc = "idle"
    /\ err = <<>>

IdleProjects ==
    /\ plLines = <<>>
    /\ plPos = 1
    /\ rootAdded = FALSE
    /\ result = <<>>

NoCall ==
    /\ ret = [op |-> "none"]
    /\ procs = <<>>

----------------------------------------------------------------------------
(* Specification of the registry: callers of Projects.Get *)

\* Roots and names the callers pass; some hold the separator of the key.
Roots == { <<>>, <<"a">>, <<"a", NL, "b">> }
Names == { <<>>, <<"c">>, <<"b", NL, "c">>, <<":", "c">> }

Init == InitRegistry /\ IdleDeps /\ IdleProjects /\ NoCall

\* The names GetOrNil is asked for: the names given to Get, and whole keys
LookupNames == Names \cup {registryKey(<<"a">>, <<"c">>), <<"a">>}

Next ==
    \/ \E root \in Roots, name \in Names :
          Get(root, name) /\ UNCHANGED depsVars /\ UNCHANGED plVars /\ UNCHANGED procs
    \/ \E name \in LookupNames :
          GetOrNil(name) /\ UNCHANGED depsVars /\ UNCHANGED plVars /\ UNCHANGED procs

Spec == Init /\ [][Next]_vars

----------------------------------------------------------------------------
(* Specification of the edges: callers of Get, AddDependency, the edges'   *)
(* SetConfig and ListDependencies                                          *)

\* Two roots with the same bare name, and a second name under one root
CallPairs == { <<<<"a">>, <<"c">>>>, <<<<"b">>, <<"c">>>>, <<<<"a">>, <<":", "c">>>> }
ConfigKeys == { <<"x">> }
ConfigValues == { <<>>, <<"a">> }

Nodes == 1..Len(projs)
Edges == 1..Len(deps)

NextDeps ==
    \/ \E c \in CallPairs :
          Get(c[1], c[2]) /\ UNCHANGED depsVars /\ UNCHANGED plVars /\ UNCHANGED procs
    \/ \E p \in Nodes, d \in Nodes :
          AddDependency(p, d) /\ UNCHANGED depsVars /\ UNCHANGED plVars /\ UNCHANGED callVars
    \/ \E e \in Edges, k \in ConfigKeys, v \in ConfigValues :
          DepSetConfig(e, k, v) /\ UNCHANGED depsVars /\ UNCHANGED plVars /\ UNCHANGED callVars
    \/ \E p \in Nodes, f \in FilterTypes :
          ListDependencies(p, f) /\ UNCHANGED depsVars /\ UNCHANGED plVars /\ UNCHANGED callVars

SpecDeps == Init /\ [][NextDeps]_vars

----------------------------------------------------------------------------
(* Specification of the project listing: callers of Get, the Type field    *)
(* and ListProjects                                                        *)

NextList ==
    \/ \E c \in CallPairs :
          Get(c[1], c[2]) /\ UNCHANGED depsVars /\ UNCHANGED plVars /\ UNCHANGED procs
    \/ \E p \in Nodes, t \in ProjectTypes :
          SetType(p, t) /\ UNCHANGED depsVars /\ UNCHANGED plVars /\ UNCHANGED callVars
    \/ \E f \in FilterTypes :
          ListProjects(f) /\ UNCHANGED depsVars /\ UNCHANGED plVars /\ UNCHANGED callVars

SpecList == Init /\ [][NextList]_vars

----------------------------------------------------------------------------
(* Specification of parseDeps on an empty registry *)

LineRootA == <<"R", "o", "o", "t", " ", "p", "r", "o", "j", "e", "c", "t", " ", "'", "a", "'">>
LineB == <<"+", "-", "-", "-", " ", "b">>
LineDeepC == <<"|", " ", " ", " ", " ", "+", "-", "-", "-", " ", "c">>
LineProjC == <<"\\", "-", "-", "-", " ", "p", "r", "o", "j", "e", "c", "t", " ", "c">>
LineBranchOnly == <<"+", "-", "-", "-">>
LineBarOnly == <<"|", " ", " ", " ", " ">>

\* The lines a dependency report is made of
ReportLines ==
    {LineRootA, LineB, LineDeepC, LineProjC, <<>>, LineBranchOnly, LineBarOnly}

InitParse ==
    /\ InitRegistry
    /\ IdleProjects
    /\ NoCall
    /\ lines \in UNION {[1..n -> ReportLines] : n \in 1..MaxLines}
    /\ pos = 1
    /\ state = waitingRoot
    /\ stack = <<>>
    /\ pc = "run"
    /\ err = <<>>

NextParse ==
    \/ ParseLine /\ UNCHANGED plVars /\ UNCHANGED callVars
    \/ ParseEnd /\ UNCHANGED plVars /\ UNCHANGED callVars

SpecParse == InitParse /\ [][NextParse]_vars

----------------------------------------------------------------------------
(* Specification of parseProjects *)

LineRootB == <<"R", "o", "o", "t", " ", "p", "r", "o", "j", "e", "c", "t", " ", "'", "b", "'">>
LineListC == <<"+", "-", "-", "-", " ", "P", "r", "o", "j", "e", "c", "t", " ", "'", "c", "'">>
LineListA == <<"\\", "-", "-", "-", " ", "P", "r", "o", "j", "e", "c", "t", " ", "'", "a", "'">>

\* The lines a project report is made of
ProjectsLines == {LineRootA, LineRootB, LineListC, LineListA, LineB, <<>>}

InitProjects ==
    /\ InitRegistry
    /\ IdleDeps
    /\ NoCall
    /\ plLines \in UNION {[1..n -> ProjectsLines] : n \in 1..MaxPlLines}
    /\ plPos = 1
    /\ rootAdded = FALSE
    /\ result = <<>>

NextProjects ==
    ProjectsLine /\ UNCHANGED regVars /\ UNCHANGED depsVars /\ UNCHANGED callVars

SpecProjects == InitProjects /\ [][NextProjects]_vars

----------------------------------------------------------------------------
(* Specification of the config stores: callers of Get, AddDependency and   *)
(* of SetConfig on a Project and on a Dependency, observing what it returns *)

SinglePair == { <<<<"a">>, <<"c">>>> }
StoreKeys == { <<"x">>, <<"t">> }
StoreValues == { <<>>, <<"a">> }

\* The call p.SetConfig(key, value) or d.SetConfig(key, value) and its result
SetConfigCall(kind, i, cfg, key, value) ==
    [op |-> "SetConfig", store |-> <<kind, i>>, key |-> key, value |-> value,
     changed |-> SetConfigChanged(cfg, key, value)]

NextConfig ==
    \/ \E c \in SinglePair :
          Get(c[1], c[2]) /\ UNCHANGED depsVars /\ UNCHANGED plVars /\ UNCHANGED procs
    \/ \E p \in Nodes, d \in Nodes :
          AddDependency(p, d) /\ UNCHANGED depsVars /\ UNCHANGED plVars /\ UNCHANGED callVars
    \/ \E p \in Nodes, k \in StoreKeys, v \in StoreValues :
          /\ ProjectSetConfig(p, k, v)
          /\ ret' = SetConfigCall("project", p, projs[p].config, k, v)
          /\ UNCHANGED <<procs, depsVars, plVars>>
    \/ \E e \in Edges, k \in StoreKeys, v \in StoreValues :
          /\ DepSetConfig(e, k, v)
          /\ ret' = SetConfigCall("dependency", e, deps[e].config, k, v)
          /\ UNCHANGED <<procs, depsVars, plVars>>

SpecConfig == Init /\ [][NextConfig]_vars

----------------------------------------------------------------------------
(* Specification of the sizes of one project: callers of Get, AddSize and  *)
(* GetSize                                                                 *)

Categories == { <<"t">>, <<"x">> }
OtherMaps ==
    { NilMap, MakeMap(EmptyMap),
      MakeMap([k \in {<<"a">>} |-> 1]),
      MakeMap([k \in {<<"a">>, <<"b">>} |-> IF k = <<"a">> THEN 2 ELSE 1]) }
Sizes == [Lines : {0, 1}, Files : {0, 1}, Bytes : {0}, Other : OtherMaps]

NextSize ==
    \/ \E c \in SinglePair :
          Get(c[1], c[2]) /\ UNCHANGED depsVars /\ UNCHANGED plVars /\ UNCHANGED procs
    \/ \E p \in Nodes, name \in Categories, size \in Sizes :
          /\ AddSize(p, name, size)
          /\ ret' = [op |-> "AddSize", node |-> p, name |-> name, size |-> size]
          /\ UNCHANGED <<procs, depsVars, plVars>>
    \/ \E p \in Nodes :
          \E order \in Orders(DOMAIN projs[p].size) :
              /\ GetSize(p)
              /\ ret' = [op |-> "GetSize", node |-> p,
                         out |-> GetSizeIn(projs[p].size, order)]
              /\ UNCHANGED <<procs, depsVars, plVars>>

SpecSize == Init /\ [][NextSize]_vars

----------------------------------------------------------------------------
(* Specification of Size.Add on any receiver and argument *)

SizeAdd(l, other) ==
    /\ ret' = [op |-> "Add", recv |-> l, arg |-> other, out |-> SizeAddOn(l, other)]
    /\ UNCHANGED <<procs, regVars, depsVars, plVars>>

NextAdd == \E l \in Sizes, other \in Sizes : SizeAdd(l, other)

SpecAdd == Init /\ [][NextAdd]_vars

----------------------------------------------------------------------------
(* Specification of the display names: one project whose NameParts an      *)
(* importer has set, and callers of SimpleName and LevelSimpleName         *)

DisplayNames ==
    { <<"a">>, <<"a", ":", "b">>, <<"a", ":", "a", "b", ":", "a", "b", "c">> }
Parts == { <<>>, <<"a">>, <<"b">>, <<"a", "b">>, <<"a", "b", "c">> }
PartSeqs == UNION {[1..n -> Parts] : n \in 0..MaxParts}
Levels == (0 - 1)..(MaxParts + 1)

InitNames ==
    /\ \E name \in DisplayNames, parts \in PartSeqs :
          LET r == GetOn(EmptyMap, <<>>, <<"a">>, name) IN
          /\ all = r.all
          /\ projs = [r.projs EXCEPT ![r.node].NameParts = parts]
          /\ held = Holding(EmptyMap, <<"a">>, name, r.node)
    /\ deps = <<>>
    /\ listed = <<>>
    /\ IdleDeps
    /\ IdleProjects
    /\ NoCall

LevelSimpleName(p, level) ==
    /\ ret' = [op |-> "LevelSimpleName", node |-> p, level |-> level,
               out |-> LevelSimpleNameOf(projs[p], level)]
    /\ UNCHANGED <<procs, regVars, depsVars, plVars>>

SimpleName(p) ==
    /\ ret' = [op |-> "SimpleName", node |-> p, level |-> 0,
               out |-> SimpleNameOf(projs[p])]
    /\ UNCHANGED <<procs, regVars, depsVars, plVars>>

NextNames ==
    \/ \E p \in Nodes, level \in Levels : LevelSimpleName(p, level)
    \/ \E p \in Nodes : SimpleName(p)

SpecNames == InitNames /\ [][NextNames]_vars

----------------------------------------------------------------------------
(* Specification of two goroutines that call Get with no serialization *)

RacePairs == { <<<<"a">>, <<"c">>>>, <<<<"b">>, <<"c">>>> }

InitRace ==
    /\ InitRegistry
    /\ IdleDeps
    /\ IdleProjects
    /\ ret = [op |-> "none"]
    /\ procs = [i \in Goroutines |-> IdleProc]

NextRace ==
    \/ \E i \in Goroutines, c \in RacePairs :
          GetCall(i, c[1], c[2]) /\ UNCHANGED depsVars /\ UNCHANGED plVars
    \/ \E i \in Goroutines : GetLookup(i) /\ UNCHANGED depsVars /\ UNCHANGED plVars
    \/ \E i \in Goroutines : GetInsert(i) /\ UNCHANGED depsVars /\ UNCHANGED plVars
    \/ \E i \in Goroutines : GetReturn(i) /\ UNCHANGED depsVars /\ UNCHANGED plVars
    \/ ConcurrentMapAccess /\ UNCHANGED depsVars /\ UNCHANGED plVars

SpecRace == InitRace /\ [][NextRace]_vars

----------------------------------------------------------------------------
(* Claims on Projects.Get *)

Requested == DOMAIN held

\* C1: repeated Get(root, name) returns the identical node: every requested
\* (root, name) has had exactly one node returned over all its calls, two
\* different names under the same root have distinct nodes, and the registry
\* holds no more nodes than pairs were requested (only a first call creates).
C1_GetIsIdempotent ==
    /\ \A k \in Requested : Cardinality(held[k]) = 1
    /\ \A k1, k2 \in Requested :
          (k1[1] = k2[1] /\ k1[2] # k2[2]) => held[k1] \cap held[k2] = {}
    /\ Len(projs) <= Cardinality(Requested)
    /\ Cardinality(DOMAIN all) = Len(projs)

\* Three names were requested under one root and three nodes exist.
C1_Witness ==
    \E k1, k2, k3 \in Requested :
        /\ k1[1] = k2[1] /\ k2[1] = k3[1]
        /\ Cardinality({k1[2], k2[2], k3[2]}) = 3
        /\ Len(projs) = 3

\* C2: registry keys are collision-free: two distinct requested pairs never
\* share a node, and every node returned for a pair carries that pair as its
\* Root and Name.
C2_KeysCollisionFree ==
    \A k1, k2 \in Requested :
        /\ (k1 # k2) => held[k1] \cap held[k2] = {}
        /\ \A n \in held[k1] : projs[n].Root = k1[1] /\ projs[n].Name = k1[2]

----------------------------------------------------------------------------
(* Claims on the edges *)

\* The target nodes ever passed to p.AddDependency
AddedTargets(p) == {deps[e].Target : e \in {x \in Edges : deps[x].Source = p}}

\* C3: a project keeps exactly one edge per distinct target node ever added:
\* ListDependencies(All) lists each added target once, also when two targets
\* of different roots carry the same bare name.
C3_OneEdgePerTarget ==
    \A p \in Nodes :
        \A order \in Orders(Range(projs[p].dependencies)) :
            LET l == ListDependenciesIn(order, FilterAll) IN
            /\ {deps[l[i]].Target : i \in 1..Len(l)} = AddedTargets(p)
            /\ Len(l) = Cardinality(AddedTargets(p))

\* C4: a step that adds an edge from p to a target p already depends on
\* replaces the edge: the number of p's edges is unchanged, the edge held is
\* the one just allocated, its store is empty, the previous edge is no longer
\* in p's dependencies, and no configuration is readable on the edge to that
\* target.
C4_ReAddReplaces ==
    [][(Len(deps') = Len(deps) + 1) =>
        LET e == Len(deps')
            p == deps'[e].Source
            d == deps'[e].Target
            old == {o \in Range(projs[p].dependencies) : deps[o].Target = d}
            now == Range(projs'[p].dependencies)
        IN  old # {} =>
              /\ Cardinality(DOMAIN projs'[p].dependencies)
                    = Cardinality(DOMAIN projs[p].dependencies)
              /\ e \in now
              /\ deps'[e].config = EmptyMap
              /\ old \cap now = {}
              /\ \A o \in now : deps'[o].Target = d =>
                    \A k \in ConfigKeys : GetConfigOf(deps'[o].config, k) = <<>>
    ]_vars

\* An edge with a configured value was replaced by a later edge to the same
\* target.
C4_Witness ==
    \E o \in Edges, e \in Edges :
        /\ o < e
        /\ deps[o].Source = deps[e].Source
        /\ deps[o].Target = deps[e].Target
        /\ deps[o].config # EmptyMap
        /\ e \in Range(projs[deps[e].Source].dependencies)

----------------------------------------------------------------------------
(* Claims on the listings *)

\* C5: in every sequence ListProjects returns, whatever the filter and the
\* order in which the map is visited, no ExternalDependency project stands
\* before a Code project.
C5_CodeBeforeExternal ==
    \A f \in FilterTypes :
        \A order \in Orders(Range(all)) :
            LET l == ListProjectsIn(order, f) IN
            \A i \in 1..Len(l), j \in 1..Len(l) :
                i < j => ~(IsExternalDependency(l[i]) /\ IsCode(l[j]))

\* ListProjects gives one sequence whatever the order of visiting ps.all
ProjectListingDeterministic ==
    \A f \in FilterTypes :
        \A o1, o2 \in Orders(Range(all)) :
            ListProjectsIn(o1, f) = ListProjectsIn(o2, f)

\* ListDependencies gives one sequence whatever the order of visiting
\* p.dependencies
DependencyListingDeterministic ==
    \A f \in FilterTypes :
        \A p \in Nodes :
            \A o1, o2 \in Orders(Range(projs[p].dependencies)) :
                ListDependenciesIn(o1, f) = ListDependenciesIn(o2, f)

\* C6: listing is deterministic: for the registry as it stands, any two
\* orders of visiting the map give the same ListProjects sequence, and the
\* same ListDependencies sequence for every project.
C6_ListingDeterministic ==
    ProjectListingDeterministic /\ DependencyListingDeterministic

----------------------------------------------------------------------------
(* Claims on parseDeps *)

\* Index of the line that made parseDeps leave waitingRoot, 0 if none
RootIdx ==
    LET is == {i \in 1..Len(lines) : rootProjRE(lines[i]) # <<>>} IN
    IF is = {} THEN 0 ELSE Min(is)

\* Index of the first line handled in parsingDeps, 0 if none
DepStart ==
    LET js == {j \in (RootIdx + 1)..Len(lines) :
                  RootIdx # 0 /\ (HasPrefix(lines[j], BranchLast)
                                    \/ HasPrefix(lines[j], BranchMore))} IN
    IF js = {} THEN 0 ELSE Min(js)

DepthOf(i) == Len(depRE(lines[i])[2])
NameOf(i) == depRE(lines[i])[3]
NodeNamed(name) == all[registryKey(RootProj, name)]

\* Name of the project that line i of the report is nested under: that of
\* the latest earlier dependency line of smaller depth, else the root's
ParentName(i) ==
    LET smaller == {j \in DepStart..(i - 1) : DepthOf(j) < DepthOf(i)} IN
    IF smaller = {} THEN rootProjRE(lines[RootIdx])[2]
    ELSE NameOf(Max(smaller))

\* C7: the n-th edge parseDeps adds comes from the n-th line handled in
\* ParsingDeps: its target is the project named on that line, its source the
\* project of the latest earlier line with a strictly smaller prefix length
\* (the root project when there is none); every line handled has added one.
C7_EdgeFromNearestShallowerLine ==
    /\ \A n \in 1..Len(deps) :
          LET i == DepStart + n - 1 IN
          /\ DepStart # 0
          /\ deps[n].Target = NodeNamed(NameOf(i))
          /\ projs[deps[n].Target].Name = NameOf(i)
          /\ deps[n].Source = NodeNamed(ParentName(i))
    /\ (pc = "run" /\ state = parsingDeps) => Len(deps) = pos - DepStart

\* A line was nested under a first-level line, and a later line came back
\* to the root.
C7_Witness ==
    \E n \in 1..Len(deps), k \in 1..Len(deps) :
        /\ n < k
        /\ deps[n].Source # stack[1].proj
        /\ deps[k].Source = stack[1].proj
        /\ DepthOf(DepStart + k - 1) < DepthOf(DepStart + n - 1)

TreeOnly(l) == Len(l) > 0 /\ \A i \in 1..Len(l) : IsTreeChar(l[i])

\* C8: a non-empty line of tree-drawing characters only, met in ParsingDeps,
\* fails the parse with that line in the error: no such line is ever the
\* line just accepted, and a failed parse carries the line it stopped at.
C8_TreeOnlyLineFails ==
    /\ (pc = "run" /\ state = parsingDeps) => ~TreeOnly(lines[pos - 1])
    /\ (pc = "failed") => err = lines[pos]

\* C9: the step on which parseDeps fails leaves the registry as the lines
\* before the failing one made it and carries the failing line; nothing is
\* added once it has failed.
C9_NoRollbackNoLateEffect ==
    [][/\ (pc = "run" /\ pc' = "failed") =>
            /\ all' = all /\ projs' = projs /\ deps' = deps
            /\ err' = lines[pos]
            /\ depRE(lines[pos]) = <<>>
       /\ (pc = "failed") => (pc' = "failed" /\ all' = all /\ projs' = projs /\ deps' = deps)
    ]_vars

\* A parse failed after it had added edges, with lines left unread.
C9_Witness ==
    /\ pc = "failed"
    /\ Len(deps) >= 1
    /\ Len(projs) >= 2
    /\ pos < Len(lines)

----------------------------------------------------------------------------
(* Claims on parseProjects *)

RECURSIVE NestedNames(_)
\* The names of the nested project lines of ls, in file order
NestedNames(ls) ==
    IF ls = <<>> THEN <<>>
    ELSE IF projRE(Head(ls)) # <<>>
         THEN <<projRE(Head(ls))[2]>> \o NestedNames(Tail(ls))
         ELSE NestedNames(Tail(ls))

RootLines == {i \in 1..Len(plLines) : rootRE(plLines[i]) # <<>>}

\* C10: parseProjects returns the root module first when a root line is
\* present (that of the first root line, once), followed by the names of
\* all nested project lines in file order.
C10_RootFirstThenNested ==
    (plPos > Len(plLines)) =>
        result = (IF RootLines = {} THEN <<>>
                  ELSE <<rootRE(plLines[Min(RootLines)])[2]>>)
                 \o NestedNames(plLines)

----------------------------------------------------------------------------
(* Claims on the config stores *)

StoreOf(st) == IF st[1] = "project" THEN projs[st[2]].config ELSE deps[st[2]].config
StoreAfter(st) == IF st[1] = "project" THEN projs'[st[2]].config ELSE deps'[st[2]].config
Stores == ({"project"} \X Nodes) \cup ({"dependency"} \X Edges)

\* C11: every config store (a Project's, each Dependency's) is a map in
\* which absent and empty are the same: a store starts empty; after
\* SetConfig(k, v) GetConfig(k) returns v and every other key and every
\* other store reads as before; SetConfig reports changed exactly when v
\* differs from what GetConfig(k) returned just before, and leaves the store
\* untouched otherwise; no other call changes a store.
C11_ConfigStoreIsAMap ==
    [][ /\ \A st \in Stores' \ Stores : StoreAfter(st) = EmptyMap
        /\ \A st \in Stores : <<>> \notin Range(StoreOf(st))
        /\ (ret' # ret /\ ret'.op = "SetConfig") =>
              LET st == ret'.store
                  k == ret'.key
                  v == ret'.value
              IN  /\ GetConfigOf(StoreAfter(st), k) = v
                  /\ \A k2 \in StoreKeys \ {k} :
                        GetConfigOf(StoreAfter(st), k2) = GetConfigOf(StoreOf(st), k2)
                  /\ ret'.changed = (v # GetConfigOf(StoreOf(st), k))
                  /\ ~ret'.changed => StoreAfter(st) = StoreOf(st)
                  /\ \A o \in Stores \ {st} : StoreAfter(o) = StoreOf(o)
        /\ ret' = ret => \A st \in Stores : StoreAfter(st) = StoreOf(st)
      ]_vars

\* A value was erased from the store of one of two Dependencies (changed
\* reported) while the Project's store holds a value under the same key and
\* the Dependency's own store one under the other key.
C11_Witness ==
    /\ ret.op = "SetConfig"
    /\ ret.store[1] = "dependency"
    /\ ret.value = <<>>
    /\ ret.changed
    /\ GetConfigOf(projs[1].config, ret.key) = <<"a">>
    /\ Len(deps) = 2
    /\ \E k \in StoreKeys \ {ret.key} : GetConfigOf(StoreOf(ret.store), k) = <<"a">>

----------------------------------------------------------------------------
(* Claims on sizes *)

RECURSIVE SumFn(_)
SumFn(f) ==
    IF DOMAIN f = {} THEN 0
    ELSE LET k == CHOOSE x \in DOMAIN f : TRUE
         IN  f[k] + SumFn([x \in DOMAIN f \ {k} |-> f[x]])

\* The field-by-field sum of the stored buckets
BucketSum(sz) ==
    [Lines |-> SumFn([c \in DOMAIN sz |-> sz[c].Lines]),
     Files |-> SumFn([c \in DOMAIN sz |-> sz[c].Files]),
     Bytes |-> SumFn([c \in DOMAIN sz |-> sz[c].Bytes]),
     Other |-> MakeMap([k \in UNION {DOMAIN sz[c].Other.kv : c \in DOMAIN sz} |->
                          SumFn([c \in DOMAIN sz |-> MapGet0(sz[c].Other.kv, k)])])]

GetSizeIsBucketSum(h) ==
    \A p \in 1..Len(h) : \A order \in Orders(DOMAIN h[p].size) :
        GetSizeIn(h[p].size, order) = [panic |-> FALSE, size |-> BucketSum(h[p].size)]

\* C12: AddSize(category, size) makes size the bucket of the category and
\* leaves the other buckets alone (a repeated AddSize replaces, it does not
\* add); in every state GetSize, whatever the order in which it visits the
\* buckets, returns the field-by-field sum (lines, files, bytes, each key of
\* other) of the stored buckets; GetSize and every other call leave the
\* buckets unchanged.
C12_GetSizeSumsLatestBuckets ==
    [][ /\ GetSizeIsBucketSum(projs')
        /\ (ret' # ret /\ ret'.op = "AddSize") =>
              LET p == ret'.node
                  c == ret'.name
              IN  /\ DOMAIN projs'[p].size = DOMAIN projs[p].size \cup {c}
                  /\ projs'[p].size[c] = ret'.size
                  /\ \A o \in DOMAIN projs[p].size \ {c} :
                        projs'[p].size[o] = projs[p].size[o]
        /\ (ret' # ret /\ ret'.op = "GetSize") =>
              /\ projs' = projs
              /\ ret'.out = [panic |-> FALSE, size |-> BucketSum(projs[ret'.node].size)]
        /\ ret' = ret => \A p \in Nodes : projs'[p].size = projs[p].size
      ]_vars

\* GetSize returned the sum of two buckets that share a key of other.
C12_Witness ==
    /\ ret.op = "GetSize"
    /\ DOMAIN projs[ret.node].size = Categories
    /\ ret.out.size.Lines = 2
    /\ ret.out.size.Other.kv = [k \in {<<"a">>, <<"b">>} |-> IF k = <<"a">> THEN 3 ELSE 1]

\* C13: Size.Add completes on every receiver and argument, a receiver whose
\* Other map was never initialised included, and afterwards every key of
\* either Other map holds the sum of the two counters, an absent key
\* counting as zero.
C13_AddTotalAndLossless ==
    ret.op = "Add" =>
        /\ ~ret.out.panic
        /\ \A k \in DOMAIN ret.recv.Other.kv \cup DOMAIN ret.arg.Other.kv :
              /\ k \in DOMAIN ret.out.size.Other.kv
              /\ ret.out.size.Other.kv[k] =
                    MapGet0(ret.recv.Other.kv, k) + MapGet0(ret.arg.Other.kv, k)

----------------------------------------------------------------------------
(* Claims on display names *)

NameCall == ret.op \in {"LevelSimpleName", "SimpleName"}

\* C14: LevelSimpleName(level), and so SimpleName(), returns Name itself or
\* a string strictly shorter than Name, never a longer one, and Name exactly
\* when NameParts is empty.
C14_SimpleNameIsNameOrShorter ==
    NameCall =>
        LET p == projs[ret.node] IN
        /\ ret.out = p.Name \/ Len(ret.out) < Len(p.Name)
        /\ Len(ret.out) <= Len(p.Name)
        /\ p.NameParts = <<>> => ret.out = p.Name

\* A truncated and collapsed name was returned, shorter than Name.
C14_Witness ==
    /\ ret.op = "LevelSimpleName"
    /\ ret.level = 2
    /\ projs[ret.node].NameParts = << <<"a">>, <<"a", "b">>, <<"b">> >>
    /\ ret.out = <<"a", "b">>
    /\ Len(ret.out) < Len(projs[ret.node].Name)

\* The first part that is the last one or is not a prefix of the part after it
KeptFrom(parts) ==
    Min({i \in 1..Len(parts) : i = Len(parts) \/ ~HasPrefix(parts[i + 1], parts[i])})

Faire == <<"f", "a", "i", "r", "e">>
FaireSub == Faire \o <<"-", "s", "u", "b">>
FaireSubX == FaireSub \o <<"-", "x">>

\* C15: prefix collapsing keeps the suffix of the level-truncated name parts
\* that starts at the first part which is the last part or is not a prefix of
\* the part after it (contiguous, in order, the last part included, every
\* part before it a prefix of its successor), and a returned name that is
\* not Name is that suffix joined by ":"; [faire, faire-sub, faire-sub-x]
\* collapses to faire-sub-x and [a, b] stays a:b.
C15_CollapseKeepsSuffix ==
    /\ \A p \in Nodes, level \in Levels :
          LET parts == LevelParts(projs[p].NameParts, level) IN
          parts # <<>> =>
              simplifyPrefixes(parts) = SubSeq(parts, KeptFrom(parts), Len(parts))
    /\ (NameCall /\ ret.out # projs[ret.node].Name) =>
          LET parts == LevelParts(projs[ret.node].NameParts, ret.level) IN
          ret.out = Join(SubSeq(parts, KeptFrom(parts), Len(parts)), <<":">>)
    /\ simplifyPrefixes(<<Faire, FaireSub, FaireSubX>>) = <<FaireSubX>>
    /\ Join(simplifyPrefixes(<< <<"a">>, <<"b">> >>), <<":">>) = <<"a", ":", "b">>

\* [a, ab, abc] collapsed to abc.
C15_Witness ==
    /\ ret.op = "SimpleName"
    /\ projs[ret.node].NameParts = << <<"a">>, <<"a", "b">>, <<"a", "b", "c">> >>
    /\ ret.out = <<"a", "b", "c">>

----------------------------------------------------------------------------
(* Claims on the arguments of Projects.Get *)

\* C16: Get with an empty root or an empty name panics (the invalid-argument
\* condition) and leaves the registry unchanged: the call creates no node
\* and returns none, every existing node stays as it was; so no node and no
\* returned node ever belongs to a pair with an empty root or name.
C16_EmptyArgumentFailsWithoutEffect ==
    [][ /\ (ret' # ret /\ ret'.op = "Get") =>
              /\ ret'.root = <<>> \/ ret'.name = <<>>
              /\ ret'.panic # NoPanic
              /\ all' = all /\ projs' = projs /\ deps' = deps /\ held' = held
        /\ \A k \in DOMAIN held' : k[1] # <<>> /\ k[2] # <<>>
        /\ \A n \in 1..Len(projs') : projs'[n].Root # <<>> /\ projs'[n].Name # <<>>
      ]_vars

\* Get panicked on an empty name while the registry held nodes.
C16_Witness ==
    /\ ret.op = "Get"
    /\ ret.root # <<>>
    /\ ret.name = <<>>
    /\ ret.panic = "empty name not supported"
    /\ Len(projs) >= 2

----------------------------------------------------------------------------
(* Claims on Projects.GetOrNil *)

HasNewline(s) == \E i \in 1..Len(s) : s[i] = NL

\* C20 as stated: GetOrNil(name) returns nil for every name that holds no
\* newline, after any sequence of Get calls.
C20_NilForEveryNameWithoutNewline ==
    (ret.op = "GetOrNil" /\ ~HasNewline(ret.name)) =>
        ret.panic = NoPanic /\ ret.out = Nil

\* C20, amended: GetOrNil(name) never changes the registry, and after any
\* sequence of Get calls it returns nil for every non-empty name that holds
\* no newline, a name Get created a project with included; on the empty name
\* it panics.
C20_GetOrNilFindsNoBareName ==
    [][ (ret' # ret /\ ret'.op = "GetOrNil") =>
          /\ regVars' = regVars
          /\ (ret'.name # <<>> /\ ~HasNewline(ret'.name)) =>
                ret'.panic = NoPanic /\ ret'.out = Nil
          /\ ret'.name = <<>> => ret'.panic # NoPanic
      ]_vars

\* GetOrNil returned nil for the name of a project that Get had created.
C20_Witness ==
    /\ ret.op = "GetOrNil"
    /\ ret.name = <<"c">>
    /\ ret.out = Nil
    /\ ret.panic = NoPanic
    /\ \E n \in 1..Len(projs) : projs[n].Name = <<"c">>

----------------------------------------------------------------------------
(* Claims on the end of parseDeps and on its stack *)

\* C17: in ParsingDeps an empty line ends the parse with success and without
\* touching the registry, and once the parse has ended no later line, valid
\* or malformed, creates a project or an edge or raises an error; an empty
\* line met in WaitingRoot or WaitingDeps is skipped and the parse goes on.
C17_EmptyLineEndsParsingDeps ==
    [][ /\ (pc = "run" /\ pos <= Len(lines) /\ lines[pos] = <<>>) =>
              IF state = parsingDeps
              THEN pc' = "done" /\ err' = <<>> /\ regVars' = regVars
              ELSE pc' = "run" /\ pos' = pos + 1 /\ state' = state /\ regVars' = regVars
        /\ pc = "done" => (pc' = "done" /\ err' = <<>> /\ regVars' = regVars)
      ]_vars

\* The parse ended at an empty line after it had added an edge, with a
\* malformed line still unread.
C17_Witness ==
    /\ pc = "done"
    /\ pos + 1 <= Len(lines)
    /\ lines[pos] = <<>>
    /\ lines[pos + 1] = LineBarOnly
    /\ depRE(LineBarOnly) = <<>>
    /\ err = <<>>
    /\ Len(deps) = 1

\* C19: parseDeps never reads the top of an empty stack; in WaitingDeps and
\* ParsingDeps the stack is not empty, its bottom entry is the root project
\* at depth 0 and the depths strictly increase from bottom to top; every
\* accepted dependency line has depth at least 1.
C19_StackRootedAndIncreasing ==
    /\ pc # "panic"
    /\ state \in {waitingDeps, parsingDeps} =>
          /\ stack # <<>>
          /\ stack[1] = [proj |-> NodeNamed(rootProjRE(lines[RootIdx])[2]), depth |-> 0]
          /\ \A i \in 1..(Len(stack) - 1) : stack[i].depth < stack[i + 1].depth
    /\ DepStart # 0 =>
          \A i \in DepStart..(pos - 1) : depRE(lines[i]) # <<>> => DepthOf(i) >= 1

\* Two nested entries lie above the root after an earlier sibling was unwound.
C19_Witness ==
    /\ state = parsingDeps
    /\ Len(stack) = 3
    /\ Len(deps) = 3
    /\ stack[3].depth > stack[2].depth

----------------------------------------------------------------------------
(* Claims on concurrent Get *)

\* Goroutines i and j have both completed the lookup-or-insert of a call for
\* the same (root, name) and got different nodes.
HoldDifferent(ps, i, j) ==
    /\ i # j
    /\ ps[i].pc \in {"return", "idle"} /\ ps[i].result # Nil
    /\ ps[j].pc \in {"return", "idle"} /\ ps[j].result # Nil
    /\ ps[i].root = ps[j].root /\ ps[i].name = ps[j].name
    /\ ps[i].result # ps[j].result

\* C18: Get is a lookup followed by an insert with nothing between them to
\* keep other callers out.  A lookup made while the key is in the map
\* returns the node stored there, so calls made one after the other get the
\* same node; when two callers hold different nodes for one (root, name),
\* the map keeps one of the two and the other is lost from the registry; a
\* node is replaced in the map only by the insert of a call whose lookup had
\* found the key absent, that is, of a call that began before the node was
\* stored.
C18_DivergenceOnlyByInterleaving ==
    [][ /\ \A i \in Goroutines :
              (procs[i].pc = "lookup" /\ procs'[i].pc \in {"insert", "return"}) =>
                  LET key == registryKey(procs[i].root, procs[i].name) IN
                  IF key \in DOMAIN all
                  THEN procs'[i].pc = "return" /\ procs'[i].result = all[key]
                  ELSE procs'[i].pc = "insert"
        /\ \A i \in Goroutines, j \in Goroutines :
              HoldDifferent(procs', i, j) =>
                  LET key == registryKey(procs'[i].root, procs'[i].name) IN
                  /\ all'[key] \in {procs'[i].result, procs'[j].result}
                  /\ \E k \in {i, j} : procs'[k].result \notin Range(all')
        /\ \A key \in DOMAIN all :
              all'[key] # all[key] =>
                  \E i \in Goroutines :
                      /\ procs[i].pc = "insert" /\ ~procs[i].ok
                      /\ registryKey(procs[i].root, procs[i].name) = key
                      /\ procs'[i].result = all'[key]
      ]_vars

\* Both goroutines have returned from Get for the same (root, name) with
\* different nodes, and one of the two nodes is not in the map.
C18_Witness ==
    /\ procs[1].pc = "idle" /\ procs[2].pc = "idle"
    /\ HoldDifferent(procs, 1, 2)
    /\ Cardinality(held[<<procs[1].root, procs[1].name>>]) = 2
    /\ \E i \in Goroutines : procs[i].result \notin Range(all)
====
